---- MODULE Spec2Model ----
(***************************************************************************)
(* A model of the Waveshare 2.13" B V4 e-paper driver                      *)
(* (src/src/epd2in13b_v4/mod.rs).                                          *)
(*                                                                         *)
(* Every driver operation is a straight-line program of calls on the       *)
(* transport interface; `?` returns the first transport error at once.     *)
(* An operation is modelled as the list of steps its code performs, and    *)
(* the interpreter below runs that list one step at a time: a write that   *)
(* succeeds, a write that fails, an idle-wait that blocks on the busy pin, *)
(* a callback, a panic.  `log` is the sequence of transport calls the      *)
(* running (or last) operation has made.                                   *)
(*                                                                         *)
(* Byte streams are kept run-length encoded: a stream is a sequence of     *)
(* runs <<byte, count>> in canonical form (no empty run, no two adjacent   *)
(* runs of the same byte), so that two streams are equal exactly when      *)
(* they are the same bytes.                                                *)
(***************************************************************************)
EXTENDS Integers, Sequences, FiniteSets, TLC

VARIABLES
    epd,               \* "none" | "constructing" | "ready": the Epd2in13b value
    background_color,  \* Epd2in13b.background_color
    busy_pin,          \* level of the BUSY input line: "High" | "Low"
    op,                \* name of the running (or last) driver operation
    arg,               \* its slice arguments, as a sequence of streams
    nums,              \* its numeric arguments (lengths, coordinates)
    todo,              \* the steps the running operation has still to perform
    log,               \* transport calls made by the running (or last) operation
    result,            \* "none" | "running" | "Ok" | "Err" | "Panic"
    scratch,           \* the chunk sub-buffer of a chunked pass
    cb_log,            \* callback invocations of the running (or last) operation
    init_log,          \* the transport calls `new` made at construction
    cv_i, cv_c, cv_res \* Chunk conversions: input index, input chunk, result

vars == <<epd, background_color, busy_pin, op, arg, nums, todo, log, result,
          scratch, cb_log, init_log, cv_i, cv_c, cv_res>>

chunk_vars == <<cv_i, cv_c, cv_res>>

driver_vars == <<epd, background_color, busy_pin, op, arg, nums, todo, log,
                 result, scratch, cb_log, init_log>>

-----------------------------------------------------------------------------
(* Program constants *)

BUFFER == 4

WIDTH == 122

HEIGHT == 250

DEFAULT_BACKGROUND_COLOR == "White"

IS_BUSY_LOW == FALSE

TriColor == {"Black", "White", "Chromatic"}

Chunk == {"Buf1", "Buf2", "Buf3", "Buf4"}

(* Bounds of the model *)

\* update_frame is tried with buffers of 4000 - MaxLenDelta .. 4000 + MaxLenDelta bytes
MaxLenDelta == 1

\* from_zero_indexed is tried on 0 .. MaxIndex
MaxIndex == 7

\* update_color_frame and its halves are tried with the full-plane buffers
\* and with slices of 0 .. MaxSliceLen bytes
MaxSliceLen == 2

-----------------------------------------------------------------------------
(* Byte streams, run-length encoded *)

Repeat(b, n) == IF n = 0 THEN <<>> ELSE << <<b, n>> >>

Cat(s, t) ==
    IF s = <<>> THEN t
    ELSE IF t = <<>> THEN s
    ELSE IF s[Len(s)][1] = t[1][1]
         THEN SubSeq(s, 1, Len(s) - 1)
              \o << <<t[1][1], s[Len(s)][2] + t[1][2]>> >>
              \o Tail(t)
         ELSE s \o t

RECURSIVE StreamLen(_)
StreamLen(s) == IF s = <<>> THEN 0 ELSE s[1][2] + StreamLen(Tail(s))

RECURSIVE FromBytes(_)
FromBytes(bs) ==
    IF bs = <<>> THEN <<>> ELSE Cat(Repeat(bs[1], 1), FromBytes(Tail(bs)))

\* `x as u8`
U8(x) == x % 256

\* `x as u32`: x mod 2^32, computed on 16-bit halves
U32(x) == (x % 65536) + 65536 * ((x \div 65536) % 65536)

-----------------------------------------------------------------------------
(* Collaborators outside this file: crate::buffer_len, crate::color,       *)
(* crate::interface::DisplayInterface                                      *)

\* buffer_len(width, height): ceil(width / 8) * height
buffer_len(width, height) ==
    ((width \div 8) + (IF width % 8 # 0 THEN 1 ELSE 0)) * height

\* TriColor::get_byte_value / Color::get_byte_value: a byte of eight such pixels
get_byte_value(color) == IF color = "White" THEN 255 ELSE 0

\* DisplayInterface::is_busy: the polarity test of the idle-wait
is_busy(pin, is_busy_low) ==
    \/ (is_busy_low /\ pin = "Low")
    \/ (~is_busy_low /\ pin = "High")

\* One step of an operation.  Every step has the same fields, so that
\* logs can be compared.
Step(call) ==
    [call |-> call, cmd |-> "", param |-> "", data |-> <<>>, args |-> <<>>,
     is_busy_low |-> FALSE, ok |-> TRUE]

\* DisplayInterface::reset(delay, initial_delay, duration)
interface_reset(initial_delay, duration) ==
    [Step("reset") EXCEPT !.args = <<initial_delay, duration>>]

\* DisplayInterface::cmd(spi, command)
interface_cmd(c) == [Step("cmd") EXCEPT !.cmd = c]

\* DisplayInterface::cmd_with_data(spi, command, data)
interface_cmd_with_data(c, d) == [Step("cmd_with_data") EXCEPT !.cmd = c, !.data = d]

\* cmd_with_data whose payload is a command-codec structure's encoding
interface_cmd_with_codec(c, p, a) ==
    [Step("cmd_with_data") EXCEPT !.cmd = c, !.param = p, !.args = a]

\* DisplayInterface::data(spi, data)
interface_data(d) == [Step("data") EXCEPT !.data = d]

\* DisplayInterface::data_x_times(spi, val, repetitions)
interface_data_x_times(val, repetitions) ==
    [Step("data_x_times") EXCEPT !.args = <<val, repetitions>>]

\* A generator `impl Fn(usize) -> u8` is given by the table b it reads:
\* the closure `|i| b.load_at(i)`, defined on 0 .. b.len() - 1
RECURSIVE load_at(_, _)
load_at(b, i) ==
    IF i < b[1][2] THEN b[1][1] ELSE load_at(Tail(b), i - b[1][2])

\* the bytes f(lo), f(lo + 1), .., f(hi - 1), in this order (the range is
\* halved rather than walked, which gives the same concatenation)
RECURSIVE Pulled(_, _, _)
Pulled(f, lo, hi) ==
    IF hi <= lo THEN <<>>
    ELSE IF hi = lo + 1 THEN Repeat(load_at(f, lo), 1)
    ELSE Cat(Pulled(f, lo, (lo + hi) \div 2), Pulled(f, (lo + hi) \div 2, hi))

\* DisplayInterface::data_with(spi, f, len): sends f(i) for i in 0..len
interface_data_with(f, len) ==
    [Step("data_with") EXCEPT !.data = Pulled(f, 0, len), !.args = <<len>>]

\* DisplayInterface::wait_until_idle(delay, is_busy_low)
interface_wait_until_idle(low) ==
    [Step("wait_until_idle") EXCEPT !.is_busy_low = low]

\* The bytes a transport call streams after its command byte
Payload(s) ==
    IF s.call = "data_x_times" THEN Repeat(s.args[1], s.args[2]) ELSE s.data

\* BufferMonoDisplay2in13b::default(): WIDTH x (HEIGHT / BUFFER) pixels, all bits 0
BufferMonoDisplay2in13b_default ==
    Repeat(0, buffer_len(WIDTH, HEIGHT \div BUFFER))

\* DrawTarget::clear(color) on a chunk sub-buffer: every pixel becomes `color`
clear(buffer, color) == Repeat(get_byte_value(color), StreamLen(buffer))

-----------------------------------------------------------------------------
(* Chunk *)

\* mutant: one-based indices
from_zero_indexed_OneBased(i) ==
    CASE i = 1 -> "Buf1"
      [] i = 2 -> "Buf2"
      [] i = 3 -> "Buf3"
      [] i = 4 -> "Buf4"
      [] OTHER -> "panic"

to_zero_indexed(c) ==
    CASE c = "Buf1" -> 0
      [] c = "Buf2" -> 1
      [] c = "Buf3" -> 2
      [] c = "Buf4" -> 3

\* "panic" stands for panic!("please check buffer"): no Chunk is produced
from_zero_indexed(i) ==
    CASE i = 0 -> "Buf1"
      [] i = 1 -> "Buf2"
      [] i = 2 -> "Buf3"
      [] i = 3 -> "Buf4"
      [] OTHER -> "panic"

-----------------------------------------------------------------------------
(* Private helpers of the driver *)

\* mutant: the idle-wait asks for active-low polarity
wait_until_idle_ActiveLow == << interface_wait_until_idle(TRUE) >>

wait_until_idle == << interface_wait_until_idle(IS_BUSY_LOW) >>

command(c) == << interface_cmd(c) >>

cmd_with_data(c, d) == << interface_cmd_with_data(c, d) >>

set_display_update_control ==
    << interface_cmd_with_codec("DisplayUpdateControl1",
           "DisplayUpdateControl{red:Normal,bw:Normal,source_output_mode}", <<>>) >>

set_border_waveform ==
    << interface_cmd_with_codec("BorderWaveformControl",
           "BorderWaveForm{Gs,Vss,Lut3}", <<>>) >>

set_sleep_mode(mode) ==
    << interface_cmd_with_codec("DeepSleepMode", mode, <<>>) >>

set_driver_output(width) ==
    << interface_cmd_with_codec("DriverOutputControl",
           "DriverOutput{linear,g0_first,dir_incr}", <<width>>) >>

set_data_entry_mode(counter_incr_mode, counter_direction) ==
    << interface_cmd_with_codec("DataEntryModeSetting",
           counter_incr_mode \o "|" \o counter_direction, <<>>) >>

\* mutant: the Y window bytes are sent high byte first
set_ram_area_HighByteFirst(start_x, start_y, end_x, end_y) ==
    cmd_with_data("SetRamXAddressStartEndPosition",
        FromBytes(<< U8(start_x \div 8), U8(end_x \div 8) >>))
    \o cmd_with_data("SetRamYAddressStartEndPosition",
        FromBytes(<< U8(start_y \div 256), U8(start_y),
                     U8(end_y \div 256), U8(end_y) >>))

set_ram_area(start_x, start_y, end_x, end_y) ==
    cmd_with_data("SetRamXAddressStartEndPosition",
        FromBytes(<< U8(start_x \div 8), U8(end_x \div 8) >>))
    \o cmd_with_data("SetRamYAddressStartEndPosition",
        FromBytes(<< U8(start_y), U8(start_y \div 256),
                     U8(end_y), U8(end_y \div 256) >>))

\* mutant: the address counters are set without waiting for idle first
set_ram_address_counters_NoWait(x, y) ==
    << interface_cmd_with_data("SetRamXAddressCounter", FromBytes(<< U8(x \div 8) >>)),
       interface_cmd_with_data("SetRamYAddressCounter",
           FromBytes(<< U8(y), U8(y \div 256) >>)) >>

set_ram_address_counters(x, y) ==
    wait_until_idle
    \o cmd_with_data("SetRamXAddressCounter", FromBytes(<< U8(x \div 8) >>))
    \o cmd_with_data("SetRamYAddressCounter",
           FromBytes(<< U8(y), U8(y \div 256) >>))

clear_achromatic_frame(bg) ==
    CASE bg = "White" ->
           command("WriteRam")
           \o << interface_data_x_times(255, U32(buffer_len(WIDTH, HEIGHT))) >>
      [] bg = "Chromatic" ->
           command("WriteRam")
           \o << interface_data_x_times(255, U32(buffer_len(WIDTH, HEIGHT))) >>
      [] bg = "Black" ->
           command("WriteRam")
           \o << interface_data_x_times(0, U32(buffer_len(WIDTH, HEIGHT))) >>

clear_chromatic_frame(bg) ==
    CASE bg = "White" ->
           command("WriteRam")
           \o << interface_data_x_times(0, U32(buffer_len(WIDTH, HEIGHT))) >>
      [] bg = "Chromatic" ->
           command("WriteRam")
           \o << interface_data_x_times(255, U32(buffer_len(WIDTH, HEIGHT))) >>
      [] bg = "Black" ->
           command("WriteRam")
           \o << interface_data_x_times(0, U32(buffer_len(WIDTH, HEIGHT))) >>

-----------------------------------------------------------------------------
(* The operations, each as the list of steps its code performs *)

init ==
    << interface_reset(10000, 10000) >>
    \o wait_until_idle
    \o << interface_cmd("SwReset") >>
    \o wait_until_idle
    \o set_driver_output(HEIGHT - 1)
    \o set_data_entry_mode("XIncrYIncr", "XDir")
    \o set_ram_area(0, 0, WIDTH - 1, HEIGHT - 1)
    \o set_ram_address_counters(0, 0)
    \o set_border_waveform
    \o cmd_with_data("WriteVcomRegister", FromBytes(<< 54 >>))
    \o cmd_with_data("GateDrivingVoltageCtrl", FromBytes(<< 23 >>))
    \o cmd_with_data("SourceDrivingVoltageCtrl", FromBytes(<< 65, 0, 50 >>))
    \o set_display_update_control
    \o wait_until_idle

new == init

\* mutant: a lightweight resume that skips the hardware reset pulse
wake_up_Resume == Tail(init)

wake_up == init

\* mutant: sleep waits for idle after the command
sleep_ThenWait == set_sleep_mode("DeepSleepMode::Normal") \o wait_until_idle

sleep == set_sleep_mode("DeepSleepMode::Normal")

\* assert!(cond): a step that panics unless cond
assert(cond) == [Step("assert") EXCEPT !.ok = cond]

\* mutant: the chromatic fill is streamed without selecting the chromatic plane
update_frame_NoRedSelect(buffer) ==
    << assert(StreamLen(buffer) = buffer_len(WIDTH, HEIGHT)) >>
    \o << interface_cmd_with_data("WriteRam", buffer) >>
    \o << interface_data_x_times(get_byte_value("Black"),
                                 U32(buffer_len(WIDTH, HEIGHT))) >>

\* mutant: the length is checked only after the buffer has been written
update_frame_LateAssert(buffer) ==
    << interface_cmd_with_data("WriteRam", buffer) >>
    \o << assert(StreamLen(buffer) = buffer_len(WIDTH, HEIGHT)) >>
    \o << interface_cmd("WriteRamRed") >>
    \o << interface_data_x_times(get_byte_value("Black"),
                                 U32(buffer_len(WIDTH, HEIGHT))) >>

update_frame(buffer) ==
    << assert(StreamLen(buffer) = buffer_len(WIDTH, HEIGHT)) >>
    \o cmd_with_data("WriteRam", buffer)
    \o command("WriteRamRed")
    \o << interface_data_x_times(get_byte_value("Black"),
                                 U32(buffer_len(WIDTH, HEIGHT))) >>

\* mutant: activation without the idle-wait
display_frame_NoWait == << interface_cmd("MasterActivation") >>

\* mutant: display_frame waits with active-low polarity
display_frame_WaitsActiveLow ==
    command("MasterActivation") \o << interface_wait_until_idle(TRUE) >>

display_frame ==
    command("MasterActivation")
    \o wait_until_idle

update_and_display_frame(buffer) ==
    update_frame(buffer) \o display_frame

\* mutant: clearing the frame also triggers the refresh
clear_frame_ThenDisplay(bg) ==
    clear_achromatic_frame(bg) \o clear_chromatic_frame(bg) \o display_frame

clear_frame(bg) ==
    clear_achromatic_frame(bg) \o clear_chromatic_frame(bg)

\* `self.background_color = background_color`
set_background_color(color) ==
    << [Step("set_background_color") EXCEPT !.param = color] >>

\* unimplemented!(): a step that always panics
unimplemented == Step("unimplemented")

update_partial_frame == << unimplemented >>

set_lut == << unimplemented >>

update_achromatic_frame(black) ==
    << interface_cmd("WriteRam") >> \o << interface_data(black) >>

update_chromatic_frame(chromatic) ==
    << interface_cmd("WriteRamRed") >> \o << interface_data(chromatic) >>

\* mutant: the chromatic plane is written before the achromatic one
update_color_frame_ChromaticFirst(black, chromatic) ==
    update_chromatic_frame(chromatic) \o update_achromatic_frame(black)

update_color_frame(black, chromatic) ==
    update_achromatic_frame(black) \o update_chromatic_frame(chromatic)

update_achromatic_frame_with(black, len) ==
    << interface_cmd("WriteRam") >> \o << interface_data_with(black, len) >>

\* mutant: the generated chromatic bytes go to the plane selected by WriteRam
update_chromatic_frame_with_PrimarySelect(chromatic, len) ==
    << interface_cmd("WriteRam") >> \o << interface_data_with(chromatic, len) >>

update_chromatic_frame_with(chromatic, len) ==
    << interface_cmd("WriteRamRed") >> \o << interface_data_with(chromatic, len) >>

update_color_frame_with(black, chromatic, black_len, chromatic_len) ==
    update_achromatic_frame_with(black, black_len)
    \o update_chromatic_frame_with(chromatic, chromatic_len)

\* `let mut buffer = BufferMonoDisplay2in13b::default()`
default_buffer == Step("default_buffer")

\* `if buffers(&mut buffer, chunk).unwrap().is_none() { buffer.clear(fill) }`
callback(chunk, fill) == [Step("callback") EXCEPT !.cmd = chunk, !.param = fill]

\* `self.interface.data(spi, buffer.buffer())`
data_buffer == Step("data_buffer")

\* mutant: the chunks are visited last to first
RECURSIVE achromatic_chunks_Reversed(_)
achromatic_chunks_Reversed(i) ==
    IF i >= BUFFER THEN <<>>
    ELSE << Step("default_buffer"),
            [Step("callback") EXCEPT !.cmd = from_zero_indexed(BUFFER - 1 - i),
                                     !.param = "White"],
            Step("data_buffer") >>
         \o achromatic_chunks_Reversed(i + 1)

\* mutant: an unmodified chunk is cleared to Black in the achromatic pass
RECURSIVE achromatic_chunks_BlackFill(_)
achromatic_chunks_BlackFill(i) ==
    IF i >= BUFFER THEN <<>>
    ELSE << Step("default_buffer"),
            [Step("callback") EXCEPT !.cmd = from_zero_indexed(i),
                                     !.param = "Black"],
            Step("data_buffer") >>
         \o achromatic_chunks_BlackFill(i + 1)

\* the body of `for i in 0..BUFFER` of update_achromatic_buffered, from i on
RECURSIVE achromatic_chunks(_)
achromatic_chunks(i) ==
    IF i >= BUFFER THEN <<>>
    ELSE << default_buffer,
            callback(from_zero_indexed(i), "White"),
            data_buffer >>
         \o achromatic_chunks(i + 1)

\* mutant: the achromatic pass triggers the refresh itself
update_achromatic_buffered_Activates ==
    << interface_cmd("WriteRam") >> \o achromatic_chunks(0)
    \o << interface_cmd("MasterActivation") >> \o wait_until_idle

update_achromatic_buffered ==
    << interface_cmd("WriteRam") >> \o achromatic_chunks(0)

\* the body of `for i in 0..BUFFER` of update_chromatic_buffered, from i on
RECURSIVE chromatic_chunks(_)
chromatic_chunks(i) ==
    IF i >= BUFFER THEN <<>>
    ELSE << callback(from_zero_indexed(i), "Black"),
            data_buffer >>
         \o chromatic_chunks(i + 1)

update_chromatic_buffered ==
    command("WriteRamRed")
    \o << default_buffer >>
    \o chromatic_chunks(0)
    \o << interface_cmd("MasterActivation") >>
    \o wait_until_idle

update_frame_buffered ==
    update_achromatic_buffered \o update_chromatic_buffered

-----------------------------------------------------------------------------
(* Inputs *)

Patterns == {"zeros", "ones", "mixed"}

Buffer(len, pat) ==
    CASE pat = "zeros" -> Repeat(0, len)
      [] pat = "ones"  -> Repeat(255, len)
      [] pat = "mixed" -> Cat(Repeat(170, len \div 2), Repeat(85, len - (len \div 2)))

FrameLens ==
    {0} \cup ((buffer_len(WIDTH, HEIGHT) - MaxLenDelta)
              .. (buffer_len(WIDTH, HEIGHT) + MaxLenDelta))

FrameBuffers == { Buffer(len, pat) : len \in FrameLens, pat \in Patterns }

Slices ==
    { Buffer(len, pat) :
        len \in (0 .. MaxSliceLen) \cup {buffer_len(WIDTH, HEIGHT)},
        pat \in Patterns }

\* the length a generator over the table b is asked for: all of it, or
\* its first half
LazyParts == {"all", "half"}

LazyLen(b, part) == IF part = "all" THEN StreamLen(b) ELSE StreamLen(b) \div 2

\* what a chunk callback may do to the sub-buffer it is handed: leave it as
\* it is, or draw; and what it may return
Drawings == {"keep", "mixed"}

Draw(buffer, d) ==
    IF d = "keep" THEN buffer ELSE Buffer(StreamLen(buffer), d)

Returns == {"Some", "None"}

-----------------------------------------------------------------------------
(* The interpreter *)

\* no operation is running and the last one's outcome has been taken
Idle == result = "none"

Fallible == {"cmd", "cmd_with_data", "data", "data_x_times", "data_with"}

\* the result once the steps `rest` are what is left
After(rest) == IF rest = <<>> THEN "Ok" ELSE "running"

\* the driver value once the steps `rest` are what is left
EpdAfter(rest) ==
    IF epd = "constructing" /\ rest = <<>> THEN "ready" ELSE epd

\* operation `name` is called with slices a and numbers n
CallWith(name, a, n, program) ==
    /\ Idle
    /\ op' = name
    /\ arg' = a
    /\ nums' = n
    /\ todo' = program
    /\ log' = <<>>
    /\ cb_log' = <<>>
    /\ result' = "running"
    /\ UNCHANGED <<busy_pin, scratch, chunk_vars>>

Call(name, a, program) == CallWith(name, a, <<>>, program)

New ==
    /\ epd = "none"
    /\ Call("new", <<>>, new)
    /\ epd' = "constructing"
    /\ background_color' = DEFAULT_BACKGROUND_COLOR
    /\ UNCHANGED init_log

\* mutant: waking up puts the background colour back to the default
WakeUp_ResetsBackground ==
    /\ epd = "ready"
    /\ Call("wake_up", <<>>, wake_up)
    /\ background_color' = DEFAULT_BACKGROUND_COLOR
    /\ UNCHANGED <<epd, init_log>>

WakeUp ==
    /\ epd = "ready"
    /\ Call("wake_up", <<>>, wake_up)
    /\ UNCHANGED <<epd, background_color, init_log>>

Sleep ==
    /\ epd = "ready"
    /\ Call("sleep", <<>>, sleep)
    /\ UNCHANGED <<epd, background_color, init_log>>

UpdateFrame ==
    /\ epd = "ready"
    /\ \E buffer \in FrameBuffers :
          Call("update_frame", <<buffer>>, update_frame(buffer))
    /\ UNCHANGED <<epd, background_color, init_log>>

DisplayFrame ==
    /\ epd = "ready"
    /\ Call("display_frame", <<>>, display_frame)
    /\ UNCHANGED <<epd, background_color, init_log>>

ClearFrame ==
    /\ epd = "ready"
    /\ Call("clear_frame", <<>>, clear_frame(background_color))
    /\ UNCHANGED <<epd, background_color, init_log>>

UpdateAndDisplayFrame ==
    /\ epd = "ready"
    /\ \E buffer \in FrameBuffers :
          Call("update_and_display_frame", <<buffer>>,
               update_and_display_frame(buffer))
    /\ UNCHANGED <<epd, background_color, init_log>>

UpdatePartialFrame ==
    /\ epd = "ready"
    /\ \E buffer \in FrameBuffers :
          Call("update_partial_frame", <<buffer>>, update_partial_frame)
    /\ UNCHANGED <<epd, background_color, init_log>>

SetLut ==
    /\ epd = "ready"
    /\ Call("set_lut", <<>>, set_lut)
    /\ UNCHANGED <<epd, background_color, init_log>>

UpdateColorFrame ==
    /\ epd = "ready"
    /\ \E black \in Slices, chromatic \in Slices :
          Call("update_color_frame", <<black, chromatic>>,
               update_color_frame(black, chromatic))
    /\ UNCHANGED <<epd, background_color, init_log>>

UpdateAchromaticFrame ==
    /\ epd = "ready"
    /\ \E black \in Slices :
          Call("update_achromatic_frame", <<black>>,
               update_achromatic_frame(black))
    /\ UNCHANGED <<epd, background_color, init_log>>

UpdateChromaticFrame ==
    /\ epd = "ready"
    /\ \E chromatic \in Slices :
          Call("update_chromatic_frame", <<chromatic>>,
               update_chromatic_frame(chromatic))
    /\ UNCHANGED <<epd, background_color, init_log>>

UpdateColorFrameWith ==
    /\ epd = "ready"
    /\ \E black \in Slices, chromatic \in Slices :
          \E part \in LazyParts :
             CallWith("update_color_frame_with", <<black, chromatic>>,
                  <<LazyLen(black, part), LazyLen(chromatic, part)>>,
                  update_color_frame_with(black, chromatic,
                      LazyLen(black, part), LazyLen(chromatic, part)))
    /\ UNCHANGED <<epd, background_color, init_log>>

UpdateAchromaticFrameWith ==
    /\ epd = "ready"
    /\ \E black \in Slices, part \in LazyParts :
          CallWith("update_achromatic_frame_with",
               <<black>>, <<LazyLen(black, part)>>,
               update_achromatic_frame_with(black, LazyLen(black, part)))
    /\ UNCHANGED <<epd, background_color, init_log>>

UpdateChromaticFrameWith ==
    /\ epd = "ready"
    /\ \E chromatic \in Slices, part \in LazyParts :
          CallWith("update_chromatic_frame_with",
               <<chromatic>>, <<LazyLen(chromatic, part)>>,
               update_chromatic_frame_with(chromatic, LazyLen(chromatic, part)))
    /\ UNCHANGED <<epd, background_color, init_log>>

UpdateAchromaticBuffered ==
    /\ epd = "ready"
    /\ Call("update_achromatic_buffered", <<>>, update_achromatic_buffered)
    /\ UNCHANGED <<epd, background_color, init_log>>

UpdateChromaticBuffered ==
    /\ epd = "ready"
    /\ Call("update_chromatic_buffered", <<>>, update_chromatic_buffered)
    /\ UNCHANGED <<epd, background_color, init_log>>

UpdateFrameBuffered ==
    /\ epd = "ready"
    /\ Call("update_frame_buffered", <<>>, update_frame_buffered)
    /\ UNCHANGED <<epd, background_color, init_log>>

SetBackgroundColor ==
    /\ epd = "ready"
    /\ \E color \in TriColor :
          Call("set_background_color", <<>>, set_background_color(color))
    /\ UNCHANGED <<epd, background_color, init_log>>

\* the operation has returned (or panicked) and its caller goes on: the
\* record of the call is dropped, the driver value stays as it is
Return ==
    /\ result \in {"Ok", "Err", "Panic"}
    /\ op' = "none"
    /\ arg' = <<>>
    /\ nums' = <<>>
    /\ log' = <<>>
    /\ cb_log' = <<>>
    /\ scratch' = BufferMonoDisplay2in13b_default
    /\ result' = "none"
    /\ UNCHANGED <<epd, background_color, busy_pin, todo, init_log, chunk_vars>>

\* what every step that advances the program does
Advance(entry) ==
    /\ log' = Append(log, entry)
    /\ todo' = Tail(todo)
    /\ result' = After(Tail(todo))
    /\ epd' = EpdAfter(Tail(todo))
    /\ init_log' = IF op = "new" /\ Tail(todo) = <<>>
                   THEN Append(log, entry) ELSE init_log
    /\ UNCHANGED <<background_color, op, arg, nums, chunk_vars>>

\* interface.reset: drives the reset line, cannot fail
DoReset ==
    /\ result = "running" /\ todo # <<>>
    /\ Head(todo).call = "reset"
    /\ Advance(Head(todo))
    /\ UNCHANGED <<busy_pin, scratch, cb_log>>

\* the transport call a step makes: the chunk sub-buffer is read when sent
Resolve(s) == IF s.call = "data_buffer" THEN interface_data(scratch) ELSE s

\* a transport write that succeeds
DoWrite ==
    /\ result = "running" /\ todo # <<>>
    /\ Resolve(Head(todo)).call \in Fallible
    /\ Advance(Resolve(Head(todo)))
    /\ UNCHANGED <<busy_pin, scratch, cb_log>>

\* mutant: the error of a failed write is dropped and the operation goes on
FailWrite_Swallowed ==
    /\ result = "running" /\ todo # <<>>
    /\ Resolve(Head(todo)).call \in Fallible
    /\ Advance([Resolve(Head(todo)) EXCEPT !.ok = FALSE])
    /\ UNCHANGED <<busy_pin, scratch, cb_log>>

\* a transport write that fails: `?` returns the error, nothing more is done
FailWrite ==
    /\ result = "running" /\ todo # <<>>
    /\ Resolve(Head(todo)).call \in Fallible
    /\ log' = Append(log, [Resolve(Head(todo)) EXCEPT !.ok = FALSE])
    /\ todo' = <<>>
    /\ result' = "Err"
    /\ epd' = IF epd = "constructing" THEN "none" ELSE epd
    /\ UNCHANGED <<background_color, busy_pin, op, arg, nums, scratch, cb_log,
                   init_log, chunk_vars>>

\* interface.wait_until_idle: loops while is_busy, then returns
WaitUntilIdle ==
    /\ result = "running" /\ todo # <<>>
    /\ Head(todo).call = "wait_until_idle"
    /\ ~is_busy(busy_pin, Head(todo).is_busy_low)
    /\ Advance(Head(todo))
    /\ UNCHANGED <<busy_pin, scratch, cb_log>>

\* the controller changes the BUSY line; the driver reads it only while waiting
BusyPinChange ==
    /\ result = "running" /\ todo # <<>>
    /\ Head(todo).call = "wait_until_idle"
    /\ busy_pin' = IF busy_pin = "High" THEN "Low" ELSE "High"
    /\ UNCHANGED <<epd, background_color, op, arg, nums, todo, log, result, scratch,
                   cb_log, init_log, chunk_vars>>

\* assert! whose condition holds
AssertPass ==
    /\ result = "running" /\ todo # <<>>
    /\ Head(todo).call = "assert"
    /\ Head(todo).ok
    /\ todo' = Tail(todo)
    /\ UNCHANGED <<epd, background_color, busy_pin, op, arg, nums, log, result,
                   scratch, cb_log, init_log, chunk_vars>>

\* `let mut buffer = BufferMonoDisplay2in13b::default()`
DefaultBuffer ==
    /\ result = "running" /\ todo # <<>>
    /\ Head(todo).call = "default_buffer"
    /\ scratch' = BufferMonoDisplay2in13b_default
    /\ todo' = Tail(todo)
    /\ UNCHANGED <<epd, background_color, busy_pin, op, arg, nums, log, result,
                   cb_log, init_log, chunk_vars>>

\* the caller's closure runs on the sub-buffer and returns Some(()) or None;
\* on None the driver clears the sub-buffer to the pass's fill colour
Callback ==
    /\ result = "running" /\ todo # <<>>
    /\ Head(todo).call = "callback"
    /\ Head(todo).cmd \in Chunk
    /\ \E d \in Drawings, ret \in Returns :
          /\ scratch' = IF ret = "None"
                        THEN clear(Draw(scratch, d), Head(todo).param)
                        ELSE Draw(scratch, d)
          /\ cb_log' = Append(cb_log,
                 [chunk |-> Head(todo).cmd, at |-> Len(log),
                  given |-> scratch, ret |-> ret])
    /\ todo' = Tail(todo)
    /\ UNCHANGED <<epd, background_color, busy_pin, op, arg, nums, log, result,
                   init_log, chunk_vars>>

\* `self.background_color = background_color`
Assign ==
    /\ result = "running" /\ todo # <<>>
    /\ Head(todo).call = "set_background_color"
    /\ background_color' = Head(todo).param
    /\ todo' = Tail(todo)
    /\ result' = After(Tail(todo))
    /\ UNCHANGED <<epd, busy_pin, op, arg, nums, log, scratch, cb_log,
                   init_log, chunk_vars>>

\* assert! whose condition fails, unimplemented!(), Chunk::from_zero_indexed
\* out of range: the call panics
Panic ==
    /\ result = "running" /\ todo # <<>>
    /\ \/ (Head(todo).call = "assert" /\ ~Head(todo).ok)
       \/ Head(todo).call = "unimplemented"
       \/ (Head(todo).call = "callback" /\ Head(todo).cmd \notin Chunk)
    /\ todo' = <<>>
    /\ result' = "Panic"
    /\ UNCHANGED <<epd, background_color, busy_pin, op, arg, nums, log, scratch,
                   cb_log, init_log, chunk_vars>>

-----------------------------------------------------------------------------
Init ==
    /\ epd = "none"
    /\ background_color = DEFAULT_BACKGROUND_COLOR
    /\ busy_pin = "Low"
    /\ op = "none"
    /\ arg = <<>>
    /\ nums = <<>>
    /\ todo = <<>>
    /\ log = <<>>
    /\ result = "none"
    /\ scratch = BufferMonoDisplay2in13b_default
    /\ cb_log = <<>>
    /\ init_log = <<>>
    /\ cv_i = 0
    /\ cv_c = "Buf1"
    /\ cv_res = [op |-> "none", chunk |-> "", index |-> -1]

Next ==
    \/ New
    \/ WakeUp
    \/ Sleep
    \/ UpdateFrame
    \/ DisplayFrame
    \/ ClearFrame
    \/ UpdateAndDisplayFrame
    \/ UpdatePartialFrame
    \/ SetLut
    \/ UpdateColorFrame
    \/ UpdateAchromaticFrame
    \/ UpdateChromaticFrame
    \/ UpdateColorFrameWith
    \/ UpdateAchromaticFrameWith
    \/ UpdateChromaticFrameWith
    \/ UpdateAchromaticBuffered
    \/ UpdateChromaticBuffered
    \/ UpdateFrameBuffered
    \/ SetBackgroundColor
    \/ Return
    \/ DoReset
    \/ DoWrite
    \/ FailWrite
    \/ WaitUntilIdle
    \/ BusyPinChange
    \/ AssertPass
    \/ DefaultBuffer
    \/ Callback
    \/ Assign
    \/ Panic

Spec == Init /\ [][Next]_vars

-----------------------------------------------------------------------------
(* One session as a specification of its own: new, then update_color_frame *)
(* on the driver it returned, then display_frame, with the transport calls *)
(* of the whole session kept in log.                                       *)

\* update_color_frame called on the driver that new has just returned
ColorFrameAfterNew ==
    /\ op = "new" /\ result = "Ok" /\ epd = "ready"
    /\ \E black \in Slices, chromatic \in Slices :
          /\ arg' = <<black, chromatic>>
          /\ todo' = update_color_frame(black, chromatic)
    /\ op' = "update_color_frame"
    /\ result' = "running"
    /\ UNCHANGED <<nums, epd, background_color, busy_pin, log, scratch, cb_log,
                   init_log, chunk_vars>>

\* display_frame called once that update_color_frame has returned Ok
DisplayAfterColorFrame ==
    /\ op = "update_color_frame" /\ result = "Ok"
    /\ todo' = display_frame
    /\ op' = "display_frame"
    /\ result' = "running"
    /\ UNCHANGED <<epd, background_color, busy_pin, arg, nums, log, scratch,
                   cb_log, init_log, chunk_vars>>

NextSession ==
    \/ New
    \/ ColorFrameAfterNew
    \/ DisplayAfterColorFrame
    \/ DoReset
    \/ DoWrite
    \/ FailWrite
    \/ WaitUntilIdle
    \/ BusyPinChange

SpecSession == Init /\ [][NextSession]_vars

-----------------------------------------------------------------------------
(* Progress.  The driver is sequential code: a call that can take its next *)
(* step takes it (transport writes return, callbacks return, the polling   *)
(* loop of wait_until_idle reads the BUSY line again and again).  Nothing  *)
(* is assumed of the controller: the BUSY line may change for ever.        *)

DriverStep ==
    \/ DoReset
    \/ DoWrite
    \/ FailWrite
    \/ WaitUntilIdle
    \/ AssertPass
    \/ DefaultBuffer
    \/ Callback
    \/ Assign
    \/ Panic

SpecLive == Init /\ [][Next]_vars /\ WF_vars(DriverStep)

-----------------------------------------------------------------------------
(* The RAM addressing helpers as a specification of their own: new, which  *)
(* calls them with the full-panel values, and the two helpers called on    *)
(* the driver with coordinates drawn from RamCoords.                       *)

\* u32 coordinates: the panel's, and ones whose shifted value or high byte
\* does not fit in 8 bits
RamCoords == {0, 121, 249, 505, 2169, 65785}

SetRamArea ==
    /\ epd = "ready"
    /\ \E start_x \in RamCoords, start_y \in RamCoords,
          end_x \in RamCoords, end_y \in RamCoords :
          CallWith("set_ram_area", <<>>, <<start_x, start_y, end_x, end_y>>,
               set_ram_area(start_x, start_y, end_x, end_y))
    /\ UNCHANGED <<epd, background_color, init_log>>

SetRamAddressCounters ==
    /\ epd = "ready"
    /\ \E x \in RamCoords, y \in RamCoords :
          CallWith("set_ram_address_counters", <<>>, <<x, y>>,
               set_ram_address_counters(x, y))
    /\ UNCHANGED <<epd, background_color, init_log>>

NextRam ==
    \/ New
    \/ SetRamArea
    \/ SetRamAddressCounters
    \/ Return
    \/ DoReset
    \/ DoWrite
    \/ FailWrite
    \/ WaitUntilIdle
    \/ BusyPinChange

SpecRam == Init /\ [][NextRam]_vars

-----------------------------------------------------------------------------
(* Chunk conversions as a specification of their own: the inputs are drawn *)
(* in the initial state and each action applies a conversion.              *)

ChunkResult(name, chunk, index) == [op |-> name, chunk |-> chunk, index |-> index]

InitChunk ==
    /\ epd = "none"
    /\ background_color = DEFAULT_BACKGROUND_COLOR
    /\ busy_pin = "Low"
    /\ op = "none"
    /\ arg = <<>>
    /\ nums = <<>>
    /\ todo = <<>>
    /\ log = <<>>
    /\ result = "none"
    /\ scratch = BufferMonoDisplay2in13b_default
    /\ cb_log = <<>>
    /\ init_log = <<>>
    /\ cv_i \in 0 .. MaxIndex
    /\ cv_c \in Chunk
    /\ cv_res = ChunkResult("none", "", -1)

\* Chunk::from_zero_indexed(cv_i)
FromZeroIndexed ==
    /\ cv_res' = ChunkResult("from", from_zero_indexed(cv_i), -1)
    /\ UNCHANGED <<cv_i, cv_c, driver_vars>>

\* cv_c.to_zero_indexed()
ToZeroIndexed ==
    /\ cv_res' = ChunkResult("to", "", to_zero_indexed(cv_c))
    /\ UNCHANGED <<cv_i, cv_c, driver_vars>>

\* Chunk::from_zero_indexed(cv_i).to_zero_indexed(); a panic of the first
\* call ends the expression
FromThenTo ==
    /\ cv_res' = LET c == from_zero_indexed(cv_i)
                 IN  IF c \in Chunk
                     THEN ChunkResult("from_to", c, to_zero_indexed(c))
                     ELSE ChunkResult("from_to", c, -1)
    /\ UNCHANGED <<cv_i, cv_c, driver_vars>>

\* Chunk::from_zero_indexed(cv_c.to_zero_indexed())
ToThenFrom ==
    /\ cv_res' = LET i == to_zero_indexed(cv_c)
                 IN  ChunkResult("to_from", from_zero_indexed(i), i)
    /\ UNCHANGED <<cv_i, cv_c, driver_vars>>

NextChunk ==
    \/ FromZeroIndexed
    \/ ToZeroIndexed
    \/ FromThenTo
    \/ ToThenFrom

SpecChunk == InitChunk /\ [][NextChunk]_vars

-----------------------------------------------------------------------------
(* Vocabulary of the properties *)

IsPrefix(s, t) == Len(s) <= Len(t) /\ SubSeq(t, 1, Len(s)) = s

\* what a log entry is: the reset pulse, an idle-wait, or the command sent
Kind(e) ==
    IF e.call = "reset" THEN "reset"
    ELSE IF e.call = "wait_until_idle" THEN "wait"
    ELSE IF e.call \in {"cmd", "cmd_with_data"} THEN e.cmd
    ELSE "payload"

Kinds(l) == [k \in 1 .. Len(l) |-> Kind(l[k])]

\* every byte of the non-empty stream s is b
AllBytes(s, b) == s # <<>> /\ \A r \in 1 .. Len(s) : s[r][1] = b

\* Controller RAM: a RAM-select command designates the plane that the
\* payload bytes after it are written into, until the next command.
\* The bytes that the writes of log l have streamed into the plane of
\* RAM-select command `select`, `cur` being the plane selected so far.
RECURSIVE StreamedInto(_, _, _)
StreamedInto(l, select, cur) ==
    IF l = <<>> THEN <<>>
    ELSE LET e == l[1]
             sel == IF e.call \in {"cmd", "cmd_with_data"} THEN e.cmd ELSE cur
             bytes == IF /\ e.ok
                         /\ sel = select
                         /\ e.call \in {"cmd_with_data", "data", "data_x_times",
                                       "data_with"}
                      THEN Payload(e) ELSE <<>>
         IN  Cat(bytes, StreamedInto(Tail(l), select, sel))

-----------------------------------------------------------------------------
(* C1: for every background colour, clear_frame selects the achromatic     *)
(* plane (WriteRam) and streams 4000 copies of the achromatic fill byte,   *)
(* then selects the chromatic plane (WriteRamRed) and streams 4000 copies  *)
(* of the chromatic fill byte, the fills being White -> (0xFF, 0x00),      *)
(* Chromatic -> (0xFF, 0xFF), Black -> (0x00, 0x00); so both planes of     *)
(* controller RAM hold the table's fill afterwards.                        *)

C1_AchromaticFill(bg) == IF bg = "Black" THEN 0 ELSE 255

C1_ChromaticFill(bg) == IF bg = "Chromatic" THEN 255 ELSE 0

C1_ClearFrameFillsBothPlanes ==
    (op = "clear_frame" /\ result = "Ok") =>
        /\ log = << interface_cmd("WriteRam"),
                    interface_data_x_times(C1_AchromaticFill(background_color), 4000),
                    interface_cmd("WriteRamRed"),
                    interface_data_x_times(C1_ChromaticFill(background_color), 4000) >>
        /\ StreamedInto(log, "WriteRam", "")
             = Repeat(C1_AchromaticFill(background_color), 4000)
        /\ StreamedInto(log, "WriteRamRed", "")
             = Repeat(C1_ChromaticFill(background_color), 4000)

-----------------------------------------------------------------------------
(* C2: update_frame called with a buffer of exactly 4000 bytes does not    *)
(* fail its precondition, and unless a transport write fails it returns Ok *)
(* having written the buffer verbatim after WriteRam and then 4000 bytes   *)
(* of 0x00 after WriteRamRed, whatever the buffer holds.                   *)

C2_UpdateFrameZeroFillsChromatic ==
    (op = "update_frame" /\ StreamLen(arg[1]) = 4000) =>
        /\ result # "Panic"
        /\ result = "Err" => (log # <<>> /\ ~log[Len(log)].ok)
        /\ result = "Ok" =>
              /\ log = << interface_cmd_with_data("WriteRam", arg[1]),
                          interface_cmd("WriteRamRed"),
                          interface_data_x_times(0, 4000) >>
              /\ StreamedInto(log, "WriteRam", "") = arg[1]
              /\ StreamedInto(log, "WriteRamRed", "") = Repeat(0, 4000)

C2_Witness ==
    /\ op = "update_frame"
    /\ result = "Ok"
    /\ arg = << Repeat(255, 4000) >>

-----------------------------------------------------------------------------
(* C3: update_frame called with a buffer whose length is not 4000 panics   *)
(* on its precondition before any transport call is made: at every step   *)
(* of such a call the log is empty, the outcome is a panic (never Ok, and  *)
(* never the transport's Err), and the driver value is unchanged.          *)

C3_BadLengthFailsBeforeAnyWrite ==
    [][ (op' = "update_frame" /\ StreamLen(arg'[1]) # 4000) =>
            /\ log' = <<>>
            /\ result' \in {"running", "Panic"}
            /\ background_color' = background_color
            /\ epd' = epd ]_vars

C3_Witness ==
    /\ op = "update_frame"
    /\ result = "Panic"
    /\ StreamLen(arg[1]) = 3999
    /\ log = <<>>

-----------------------------------------------------------------------------
(* C4: a display_frame call issues the master-activation command, then one *)
(* idle-wait, and nothing else; it returns Ok only once that idle-wait has *)
(* found the controller idle.                                              *)

C4_DisplayFrameActivatesThenWaits ==
    op = "display_frame" =>
        /\ IsPrefix(Kinds(log), << "MasterActivation", "wait" >>)
        /\ Len(log) >= 1 => log[1].call = "cmd"
        /\ result = "Ok" =>
              /\ Kinds(log) = << "MasterActivation", "wait" >>
              /\ ~is_busy(busy_pin, log[2].is_busy_low)

C4_Witness ==
    /\ op = "display_frame"
    /\ result = "Ok"
    /\ Len(log) = 2

-----------------------------------------------------------------------------
(* C5 as claimed: every idle-wait the driver performs asks the transport   *)
(* for active-low busy polarity (low = busy, high = idle).                 *)

-----------------------------------------------------------------------------
(* C6: a successful initialization (new, or init through wake_up) emits    *)
(* exactly: reset pulse (10000 us, 10000 us); idle-wait; software reset;   *)
(* idle-wait; driver-output control; data-entry mode; RAM X window; RAM Y  *)
(* window; idle-wait; RAM X address counter; RAM Y address counter; border *)
(* waveform; VCOM = [0x36]; gate voltage = [0x17]; source voltage =        *)
(* [0x41, 0x00, 0x32]; display-update control 1; idle-wait.  An            *)
(* initialization that a transport error ends has emitted a prefix of it.  *)

C6_Sequence ==
    << "reset", "wait", "SwReset", "wait", "DriverOutputControl",
       "DataEntryModeSetting", "SetRamXAddressStartEndPosition",
       "SetRamYAddressStartEndPosition", "wait", "SetRamXAddressCounter",
       "SetRamYAddressCounter", "BorderWaveformControl", "WriteVcomRegister",
       "GateDrivingVoltageCtrl", "SourceDrivingVoltageCtrl",
       "DisplayUpdateControl1", "wait" >>

C6_InitSequence ==
    op \in {"new", "wake_up"} =>
        /\ IsPrefix(Kinds(log), C6_Sequence)
        /\ \A k \in 1 .. Len(log) :
              /\ k = 1 => log[k].args = << 10000, 10000 >>
              /\ k = 3 => log[k].call = "cmd"
              /\ k = 13 => log[k].data = << <<54, 1>> >>
              /\ k = 14 => log[k].data = << <<23, 1>> >>
              /\ k = 15 => log[k].data = << <<65, 1>>, <<0, 1>>, <<50, 1>> >>
              /\ (log[k].call \in Fallible /\ k # 3) => log[k].call = "cmd_with_data"
        /\ result = "Ok" => Kinds(log) = C6_Sequence

C6_Witness ==
    /\ op = "new"
    /\ result = "Ok"
    /\ epd = "ready"
    /\ Len(log) = 17

-----------------------------------------------------------------------------
(* C7: a wake_up that returns Ok has emitted exactly the transport calls   *)
(* that `new` emitted at construction, whatever the driver did in between; *)
(* and at every point of a wake_up the calls that have succeeded so far    *)
(* are a prefix of that sequence.                                          *)

C7_WakeUpRepeatsInit ==
    op = "wake_up" =>
        /\ init_log # <<>>
        /\ IsPrefix(SelectSeq(log, LAMBDA e : e.ok), init_log)
        /\ result = "Ok" => log = init_log

C7_Witness ==
    /\ op = "wake_up"
    /\ result = "Ok"
    /\ background_color = "Black"
    /\ log = init_log

-----------------------------------------------------------------------------
(* C8: for i in 0..3, from_zero_indexed(i).to_zero_indexed() = i; for      *)
(* every Chunk c, from_zero_indexed(c.to_zero_indexed()) = c; and          *)
(* from_zero_indexed(i) for i >= 4 panics and yields no Chunk.             *)

C8_ChunkRoundTrip ==
    /\ (cv_res.op = "from_to" /\ cv_i <= 3) => cv_res.index = cv_i
    /\ cv_res.op = "to_from" => cv_res.chunk = cv_c
    /\ (cv_res.op = "from" /\ cv_i <= 3) => cv_res.chunk \in Chunk
    /\ (cv_res.op \in {"from", "from_to"} /\ cv_i >= 4) =>
          (cv_res.chunk = "panic" /\ cv_res.chunk \notin Chunk)

C8_Witness ==
    /\ cv_res.op = "from_to"
    /\ cv_i = 3
    /\ cv_res.chunk = "Buf4"
    /\ cv_res.index = 3

-----------------------------------------------------------------------------
(* C9: in a chunked pass the callback is invoked with Buf1, Buf2, Buf3,    *)
(* Buf4 in this order, each at most once, and exactly these four times in  *)
(* a pass that returns Ok; when the callback for a chunk is invoked, the   *)
(* bytes of every earlier chunk of the pass have been streamed.            *)

C9_Order == << "Buf1", "Buf2", "Buf3", "Buf4" >>

\* the number of transport calls made before the k-th callback of the
\* operation: the RAM-select of each pass begun, and one payload for each
\* earlier chunk
C9_CallsBefore(k) == IF k <= 4 THEN k ELSE k + 1

C9_CallbackOrder ==
    /\ op \in {"update_achromatic_buffered", "update_chromatic_buffered"} =>
          Len(cb_log) <= 4
    /\ op = "update_frame_buffered" => Len(cb_log) <= 8
    /\ op \notin {"update_achromatic_buffered", "update_chromatic_buffered",
                 "update_frame_buffered"} => cb_log = <<>>
    /\ \A k \in 1 .. Len(cb_log) :
          /\ cb_log[k].chunk = C9_Order[((k - 1) % 4) + 1]
          /\ cb_log[k].at = C9_CallsBefore(k)
          /\ \A j \in 1 .. cb_log[k].at :
                /\ log[j].ok
                /\ log[j].call = IF j = 1 \/ j = 6 THEN "cmd" ELSE "data"
    /\ (result = "Ok" /\ op \in {"update_achromatic_buffered",
                                 "update_chromatic_buffered"}) =>
          Len(cb_log) = 4
    /\ (result = "Ok" /\ op = "update_frame_buffered") => Len(cb_log) = 8

C9_Witness ==
    /\ op = "update_achromatic_buffered"
    /\ result = "Ok"
    /\ Len(cb_log) = 4
    /\ Len(log) = 5

-----------------------------------------------------------------------------
(* C10: when the callback returns None for a chunk, the bytes streamed for *)
(* that chunk are all 0xFF (White) in the achromatic pass and all 0x00     *)
(* (Black) in the chromatic pass, whatever the callback drew and whatever  *)
(* the sub-buffer held from earlier chunks.                                *)

\* the k-th callback of the operation belongs to the achromatic pass
C10_Achromatic(k) ==
    \/ op = "update_achromatic_buffered"
    \/ (op = "update_frame_buffered" /\ k <= 4)

C10_UnmodifiedChunkFill ==
    \A k \in 1 .. Len(cb_log) :
        (cb_log[k].ret = "None" /\ Len(log) > cb_log[k].at) =>
            LET sent == log[cb_log[k].at + 1]
            IN  /\ sent.call = "data"
                /\ AllBytes(sent.data, IF C10_Achromatic(k) THEN 255 ELSE 0)
                /\ StreamLen(sent.data) = StreamLen(cb_log[k].given)

C10_Witness ==
    /\ op = "update_chromatic_buffered"
    /\ Len(cb_log) >= 2
    /\ cb_log[2].ret = "None"
    /\ cb_log[2].given # BufferMonoDisplay2in13b_default
    /\ Len(log) >= 3
    /\ log[3].ok

-----------------------------------------------------------------------------
(* C11: update_achromatic_buffered issues RAM-select primary (WriteRam),   *)
(* streams four chunk payloads and never issues MasterActivation;          *)
(* update_chromatic_buffered issues RAM-select secondary (WriteRamRed),    *)
(* streams four chunk payloads, then issues exactly one MasterActivation   *)
(* followed by one idle-wait; update_frame_buffered runs the achromatic    *)
(* pass and then the chromatic pass, so its only activation comes after    *)
(* all eight chunk payloads. A call that is still running or that failed   *)
(* has emitted a prefix of its sequence.                                   *)

C11_AchromaticPass ==
    << "WriteRam", "payload", "payload", "payload", "payload" >>

C11_ChromaticPass ==
    << "WriteRamRed", "payload", "payload", "payload", "payload",
       "MasterActivation", "wait" >>

\* the sequence of the operation that is running, <<>> for the others
C11_Expected ==
    CASE op = "update_achromatic_buffered" -> C11_AchromaticPass
      [] op = "update_chromatic_buffered" -> C11_ChromaticPass
      [] op = "update_frame_buffered" -> C11_AchromaticPass \o C11_ChromaticPass
      [] OTHER -> <<>>

C11_BufferedPasses ==
    op \in {"update_achromatic_buffered", "update_chromatic_buffered",
            "update_frame_buffered"} =>
        /\ IsPrefix(Kinds(log), C11_Expected)
        /\ result = "Ok" => Kinds(log) = C11_Expected
        /\ \A k \in 1 .. Len(log) :
              /\ Kind(log[k]) \in {"WriteRam", "WriteRamRed", "MasterActivation"}
                    => log[k].call = "cmd"
              /\ Kind(log[k]) = "payload" => log[k].call = "data"

C11_Witness ==
    /\ op = "update_frame_buffered"
    /\ result = "Ok"
    /\ Len(cb_log) = 8
    /\ Len(log) = 12
    /\ log[11].cmd = "MasterActivation"

-----------------------------------------------------------------------------
(* C12: after construction, update_color_frame(black, chromatic) followed  *)
(* by display_frame emits exactly: RAM-select primary (WriteRam), a        *)
(* payload equal to black; RAM-select secondary (WriteRamRed), a payload   *)
(* equal to chromatic; MasterActivation; an idle-wait. Each slice is sent  *)
(* verbatim at its own length, and no RAM-window or address-counter        *)
(* command is part of the sequence.                                        *)

\* what the session has emitted since new returned
C12_Emitted == SubSeq(log, Len(init_log) + 1, Len(log))

C12_Sequence ==
    << interface_cmd("WriteRam"), interface_data(arg[1]),
       interface_cmd("WriteRamRed"), interface_data(arg[2]),
       interface_cmd("MasterActivation"), interface_wait_until_idle(FALSE) >>

C12_Addressing ==
    {"SetRamXAddressStartEndPosition", "SetRamYAddressStartEndPosition",
     "SetRamXAddressCounter", "SetRamYAddressCounter"}

C12_ColorFrameThenDisplay ==
    op \in {"update_color_frame", "display_frame"} =>
        /\ IsPrefix(init_log, log)
        /\ IsPrefix(Kinds(C12_Emitted), Kinds(C12_Sequence))
        /\ \A k \in 1 .. Len(C12_Emitted) :
              /\ Kind(C12_Emitted[k]) \notin C12_Addressing
              /\ C12_Emitted[k].ok => C12_Emitted[k] = C12_Sequence[k]
        /\ (op = "update_color_frame" /\ result = "Ok")
              => C12_Emitted = SubSeq(C12_Sequence, 1, 4)
        /\ (op = "display_frame" /\ result = "Ok")
              => C12_Emitted = C12_Sequence

C12_Witness ==
    /\ op = "display_frame"
    /\ result = "Ok"
    /\ arg[1] = << <<170, 1>>, <<85, 1>> >>
    /\ StreamLen(arg[2]) = buffer_len(WIDTH, HEIGHT)
    /\ Len(log) = Len(init_log) + 6

-----------------------------------------------------------------------------
(* C13: update_partial_frame and set_lut, whatever the driver state, end   *)
(* in an "unsupported operation" failure that is a returned error the      *)
(* caller can branch on, not an abrupt termination, and they issue no      *)
(* transport operation.                                                    *)

C13_UnsupportedIsAReturnedError ==
    (op \in {"update_partial_frame", "set_lut"} /\ result # "running") =>
        /\ result = "Err"
        /\ log = <<>>

-----------------------------------------------------------------------------
(* C14: in every fallible operation the first transport write that fails   *)
(* makes the call return that error at once: the failed write is the last  *)
(* transport call of the operation (no later write, no retry), a call that *)
(* returns Ok has had no failed write (no error is swallowed), and when    *)
(* the failure happens during new, no driver instance is returned.         *)

C14_FirstFailureReturns ==
    /\ \A k \in 1 .. Len(log) :
          ~log[k].ok => /\ k = Len(log)
                        /\ result = "Err"
                        /\ todo = <<>>
    /\ result = "Err" => (log # <<>> /\ ~log[Len(log)].ok)
    /\ (op = "new" /\ result = "Err") => epd = "none"
    /\ (op = "new" /\ result = "Ok") => epd = "ready"

C14_Witness ==
    /\ op = "new"
    /\ result = "Err"
    /\ epd = "none"
    /\ Len(log) > 3
    /\ ~log[Len(log)].ok
    /\ log[Len(log)].cmd = "DataEntryModeSetting"

-----------------------------------------------------------------------------
(* C15: the lazy-generator transfers are equivalent to the materialized    *)
(* ones: update_achromatic_frame_with(|i| b[i], b.len()) emits the same    *)
(* RAM-select and the same byte stream as update_achromatic_frame(b), and  *)
(* likewise for the chromatic plane; update_color_frame_with writes the    *)
(* achromatic plane first and the chromatic plane second, each generator   *)
(* being consumed for exactly its given length, in index order 0..len-1.   *)

\* the first n bytes of the stream s
RECURSIVE C15_Take(_, _)
C15_Take(s, n) ==
    IF n = 0 \/ s = <<>> THEN <<>>
    ELSE IF s[1][2] >= n THEN Repeat(s[1][1], n)
    ELSE << s[1] >> \o C15_Take(Tail(s), n - s[1][2])

\* the commands and byte streams of the transport calls l
C15_Emission(l) == [k \in 1 .. Len(l) |-> <<Kind(l[k]), Payload(l[k])>>]

C15_Plane(select, b, len) ==
    << <<select, <<>>>>, <<"payload", C15_Take(b, len)>> >>

C15_LazyEqualsMaterialized ==
    /\ (op = "update_achromatic_frame_with" /\ result = "Ok") =>
          /\ C15_Emission(log) = C15_Plane("WriteRam", arg[1], nums[1])
          /\ nums[1] = StreamLen(arg[1]) =>
                C15_Emission(log) = C15_Emission(update_achromatic_frame(arg[1]))
    /\ (op = "update_chromatic_frame_with" /\ result = "Ok") =>
          /\ C15_Emission(log) = C15_Plane("WriteRamRed", arg[1], nums[1])
          /\ nums[1] = StreamLen(arg[1]) =>
                C15_Emission(log) = C15_Emission(update_chromatic_frame(arg[1]))
    /\ (op = "update_color_frame_with" /\ result = "Ok") =>
          /\ C15_Emission(log) = C15_Plane("WriteRam", arg[1], nums[1])
                                 \o C15_Plane("WriteRamRed", arg[2], nums[2])
          /\ (nums[1] = StreamLen(arg[1]) /\ nums[2] = StreamLen(arg[2])) =>
                C15_Emission(log)
                    = C15_Emission(update_color_frame(arg[1], arg[2]))
    /\ op \in {"update_achromatic_frame_with", "update_chromatic_frame_with",
               "update_color_frame_with"} =>
          \A k \in 1 .. Len(log) :
              log[k].call = "data_with" =>
                  StreamLen(log[k].data) = log[k].args[1]

C15_Witness ==
    /\ op = "update_color_frame_with"
    /\ result = "Ok"
    /\ arg[1] = Buffer(buffer_len(WIDTH, HEIGHT), "mixed")
    /\ nums[1] = buffer_len(WIDTH, HEIGHT)
    /\ arg[2] = << <<170, 1>>, <<85, 1>> >>
    /\ nums[2] = 2
    /\ log[2].data = arg[1]
    /\ log[4].data = arg[2]

-----------------------------------------------------------------------------
(* C16: each chunk sub-buffer handed to the callback and streamed by a     *)
(* chunked pass is sized width x ceil(height/4): 63 rows of 16 bytes,      *)
(* 1008 bytes, for every chunk index 0..3.                                 *)

\* rows of a chunk when the 250 rows are split in four, rounding up
C16_ChunkRows == (HEIGHT + BUFFER - 1) \div BUFFER

C16_ChunkBufferIs63Rows ==
    /\ C16_ChunkRows = 63
    /\ \A k \in 1 .. Len(cb_log) :
          /\ StreamLen(cb_log[k].given) = buffer_len(WIDTH, C16_ChunkRows)
          /\ Len(log) > cb_log[k].at =>
                StreamLen(Payload(log[cb_log[k].at + 1]))
                    = buffer_len(WIDTH, C16_ChunkRows)

-----------------------------------------------------------------------------
(* C17: the four chunks of a chunked pass partition the plane: the payload *)
(* bytes streamed between the pass's RAM-select command and the next       *)
(* command cover all 250 rows, i.e. a pass that returns Ok has written at  *)
(* least the plane length of 4000 bytes into the plane it selected.        *)

C17_PassCoversThePlane ==
    /\ (op \in {"update_achromatic_buffered", "update_frame_buffered"}
        /\ result = "Ok") =>
          StreamLen(StreamedInto(log, "WriteRam", ""))
              >= buffer_len(WIDTH, HEIGHT)
    /\ (op \in {"update_chromatic_buffered", "update_frame_buffered"}
        /\ result = "Ok") =>
          StreamLen(StreamedInto(log, "WriteRamRed", ""))
              >= buffer_len(WIDTH, HEIGHT)

-----------------------------------------------------------------------------
(* C18: background_color() is the value given to the most recent           *)
(* set_background_color, or White if there was none: new sets it to White, *)
(* set_background_color sets it to its argument, and init, wake_up, sleep, *)
(* clear_frame, display_frame and every update_* leave it as it is. The    *)
(* steps of every operation other than clear_frame are fixed by the        *)
(* operation and its arguments alone; those of clear_frame by the          *)
(* background colour.                                                      *)

\* the steps of operation name called with slices a and numbers n
C18_Steps(name, a, n) ==
    CASE name = "new" -> init
      [] name = "wake_up" -> init
      [] name = "sleep" -> set_sleep_mode("DeepSleepMode::Normal")
      [] name = "update_frame" -> update_frame(a[1])
      [] name = "display_frame" -> display_frame
      [] name = "update_and_display_frame" -> update_and_display_frame(a[1])
      [] name = "update_partial_frame" -> update_partial_frame
      [] name = "set_lut" -> set_lut
      [] name = "update_color_frame" -> update_color_frame(a[1], a[2])
      [] name = "update_achromatic_frame" -> update_achromatic_frame(a[1])
      [] name = "update_chromatic_frame" -> update_chromatic_frame(a[1])
      [] name = "update_color_frame_with" ->
            update_color_frame_with(a[1], a[2], n[1], n[2])
      [] name = "update_achromatic_frame_with" ->
            update_achromatic_frame_with(a[1], n[1])
      [] name = "update_chromatic_frame_with" ->
            update_chromatic_frame_with(a[1], n[1])
      [] name = "update_achromatic_buffered" -> update_achromatic_buffered
      [] name = "update_chromatic_buffered" -> update_chromatic_buffered
      [] name = "update_frame_buffered" -> update_frame_buffered

C18_BackgroundColor ==
    [][ /\ (op = "set_background_color" /\ result = "running")
            => /\ Head(todo).call = "set_background_color"
               /\ background_color' = Head(todo).param
               /\ result' = "Ok"
        /\ (result = "none" /\ op' = "new")
            => background_color' = "White"
        /\ ~ \/ (op = "set_background_color" /\ result = "running")
             \/ (result = "none" /\ op' = "new")
            => background_color' = background_color
        /\ (result = "none" /\ result' = "running") =>
              CASE op' = "clear_frame" ->
                      todo' = clear_frame(background_color)
                [] op' = "set_background_color" ->
                      \E color \in TriColor :
                          todo' = set_background_color(color)
                [] OTHER -> todo' = C18_Steps(op', arg', nums')
      ]_vars

C18_Witness ==
    /\ background_color = "Chromatic"
    /\ op = "sleep"
    /\ result = "Ok"

-----------------------------------------------------------------------------
(* C19: sleep emits exactly one transport operation, the deep-sleep-mode   *)
(* command with mode Normal; it performs no idle-wait and sends nothing    *)
(* else.                                                                   *)

C19_SleepIsOneCommand ==
    op = "sleep" =>
        /\ Len(log) <= 1
        /\ \A k \in 1 .. Len(log) :
              /\ log[k].call = "cmd_with_data"
              /\ log[k].cmd = "DeepSleepMode"
              /\ log[k].param = "DeepSleepMode::Normal"
        /\ result = "Ok" => Len(log) = 1
        /\ result = "running" => (log = <<>> /\ Len(todo) = 1)

C19_Witness ==
    /\ op = "sleep"
    /\ result = "Ok"
    /\ Len(log) = 1
    /\ log[1] = interface_cmd_with_codec("DeepSleepMode",
                                        "DeepSleepMode::Normal", <<>>)

-----------------------------------------------------------------------------
(* C20: in both chunked passes the sub-buffer given to the callback for    *)
(* each chunk is freshly allocated: it holds nothing drawn or filled while *)
(* an earlier chunk of the pass was processed, so the bytes streamed for   *)
(* chunk i depend only on what the callback did for chunk i.               *)

C20_ScratchIsFreshPerChunk ==
    \A k \in 1 .. Len(cb_log) :
        cb_log[k].given = BufferMonoDisplay2in13b_default

-----------------------------------------------------------------------------
(* C21: a master-activation command is issued by display_frame only (also  *)
(* when it is called through update_and_display_frame): update_frame,      *)
(* update_color_frame, update_achromatic_frame, update_chromatic_frame,    *)
(* their *_with variants, update_achromatic_buffered, clear_frame, sleep   *)
(* and init never issue it, and no other operation does.                   *)

\* how many MasterActivation commands the transport calls l hold
C21_Activations(l) ==
    Cardinality({ k \in 1 .. Len(l) : Kind(l[k]) = "MasterActivation" })

C21_OnlyDisplayFrameActivates ==
    C21_Activations(log) > 0 =>
        op \in {"display_frame", "update_and_display_frame"}

(* C21, as the code has it: master-activation is issued by display_frame   *)
(* (also through update_and_display_frame) and by the chromatic chunked    *)
(* pass update_chromatic_buffered (also through update_frame_buffered),    *)
(* once per call and followed only by the idle-wait; every other           *)
(* operation never issues it.                                              *)

C21_Activating ==
    {"display_frame", "update_and_display_frame",
     "update_chromatic_buffered", "update_frame_buffered"}

C21_ActivationOnlyWhereTheCodeHasIt ==
    /\ op \notin C21_Activating => C21_Activations(log) = 0
    /\ op \in C21_Activating =>
          /\ C21_Activations(log) <= 1
          /\ result = "Ok" =>
                /\ C21_Activations(log) = 1
                /\ Len(log) >= 2
                /\ Kind(log[Len(log) - 1]) = "MasterActivation"
                /\ Kind(log[Len(log)]) = "wait"

C21_Witness ==
    /\ op = "update_chromatic_buffered"
    /\ result = "Ok"
    /\ C21_Activations(log) = 1
    /\ log[6] = interface_cmd("MasterActivation")

-----------------------------------------------------------------------------
(* C22: the RAM addressing payloads are: X window = [start_x >> 3,         *)
(* end_x >> 3]; Y window = [start_y low byte, start_y high byte, end_y low *)
(* byte, end_y high byte]; X counter = [x >> 3]; Y counter = [y low byte,  *)
(* y high byte], every byte truncated to 8 bits. For the values init       *)
(* passes (0, 0, 121, 249) this gives X window [0x00, 0x0F], Y window      *)
(* [0x00, 0x00, 0xF9, 0x00], X counter [0x00] and Y counter [0x00, 0x00].  *)

\* the low 8 bits of v
C22_Byte(v) == v - 256 * (v \div 256)

\* the payload of the addressing command e for the arguments a, where a is
\* (start_x, start_y, end_x, end_y) for the windows and (x, y) for the counters
C22_Payload(e, a) ==
    CASE e.cmd = "SetRamXAddressStartEndPosition" ->
            << C22_Byte(a[1] \div 8), C22_Byte(a[3] \div 8) >>
      [] e.cmd = "SetRamYAddressStartEndPosition" ->
            << C22_Byte(a[2]), C22_Byte(a[2] \div 256),
               C22_Byte(a[4]), C22_Byte(a[4] \div 256) >>
      [] e.cmd = "SetRamXAddressCounter" -> << C22_Byte(a[1] \div 8) >>
      [] e.cmd = "SetRamYAddressCounter" ->
            << C22_Byte(a[2]), C22_Byte(a[2] \div 256) >>

\* the payload of the addressing command e that init sends
C22_InitPayload(e) ==
    CASE e.cmd = "SetRamXAddressStartEndPosition" -> << 0, 15 >>
      [] e.cmd = "SetRamYAddressStartEndPosition" -> << 0, 0, 249, 0 >>
      [] e.cmd = "SetRamXAddressCounter" -> << 0 >>
      [] e.cmd = "SetRamYAddressCounter" -> << 0, 0 >>

C22_RamAddressEncoding ==
    /\ op = "set_ram_area" =>
          /\ IsPrefix(Kinds(log), << "SetRamXAddressStartEndPosition",
                                     "SetRamYAddressStartEndPosition" >>)
          /\ \A k \in 1 .. Len(log) :
                log[k].data = FromBytes(C22_Payload(log[k], nums))
    /\ op = "set_ram_address_counters" =>
          /\ IsPrefix(Kinds(log), << "wait", "SetRamXAddressCounter",
                                     "SetRamYAddressCounter" >>)
          /\ \A k \in 2 .. Len(log) :
                log[k].data = FromBytes(C22_Payload(log[k], nums))
    /\ op = "new" =>
          /\ \A k \in 1 .. Len(log) :
                log[k].cmd \in C12_Addressing =>
                    /\ log[k].data = FromBytes(C22_InitPayload(log[k]))
                    /\ C22_InitPayload(log[k])
                          = C22_Payload(log[k], <<0, 0, 121, 249>>)
          /\ result = "Ok" =>
                \A c \in C12_Addressing :
                    \E k \in 1 .. Len(log) : log[k].cmd = c

C22_Witness ==
    /\ op = "set_ram_area"
    /\ result = "Ok"
    /\ nums = <<2169, 65785, 121, 505>>
    /\ log[1].data = FromBytes(<< 15, 15 >>)
    /\ log[2].data = FromBytes(<< 249, 0, 249, 1 >>)

-----------------------------------------------------------------------------
(* C23: every driver operation terminates provided each transport write    *)
(* returns and the busy line, read as active = low and idle = high,        *)
(* eventually reports idle and stays idle: if the BUSY pin is eventually   *)
(* High for ever, every running call eventually returns.                   *)

C23_AtIdleWait ==
    /\ result = "running"
    /\ todo # <<>>
    /\ Head(todo).call = "wait_until_idle"

====
